---- MODULE Spec2Model ----
(***************************************************************************)
(* Binary geometry serialization core of the BigWorld Blender exporter:    *)
(*   - utils/vertex_compression.py  (bone weight / index quantization)     *)
(*   - formats/vertex_formats.py    (vertex format registry, validation)   *)
(*   - formats/primitives_format.py (.primitives writer)                   *)
(*   - utils/validation.py          (validate_primitives)                  *)
(*   - core/collision_processor.py  (BSP construction)                     *)
(*                                                                         *)
(* Three state machines share this module, each with its own               *)
(* specification: SpecExport (one call of export_primitives_file),         *)
(* SpecPure (one call of a pure helper) and SpecBSP (one call of           *)
(* CollisionProcessor._build_bsp).  Variables of the other machines stay   *)
(* at their dormant value.                                                 *)
(*                                                                         *)
(* Numbers: weights and coordinates are floats in the source.  The model   *)
(* draws them from small integers.  A normalized weight is the exact       *)
(* fraction n/d, for which x/s*255 and Python's round (ties to even) agree *)
(* with the float computation on the explored weights.  Vertex coordinates *)
(* are multiples of 6, so centroids (sum/3.0) and medians (0.5*(a+b)) are  *)
(* integers and the float operations are exact.                            *)
(***************************************************************************)
EXTENDS Integers, Sequences, FiniteSets, Bags, TLC

VARIABLES
    \* ---- export_primitives_file (formats/primitives_format.py) ----
    pc,                 \* position inside export_primitives_file
    vertices,           \* argument: [head: Seq(key set), fill: Nat]
    indices,            \* argument: Seq(Int)
    primitive_groups,   \* argument: Seq(<<startIdx,numPrims,startVtx,numVtx>>)
    vertex_format_name, \* argument
    use_32bit_index,    \* argument
    disk,               \* destination path: [exists, data]
    fh,                 \* the file handle f: "none" | "open" | "closed"
    opens,              \* number of open(filepath, "wb") calls made
    err,                \* exception that left the call, "" when none
    \* ---- pure helpers ----
    fn,                 \* helper that was called, "" before the call
    arg,                \* its argument
    ret,                \* its return value
    \* ---- CollisionProcessor._build_bsp ----
    bpc,                \* "start" | "run" | "done"
    leafLimit,          \* binding of LeafTriangleLimit read by build_node
    maxDepth,           \* binding of MaxDepth read by build_node
    bvertices,          \* argument vertices: Seq(<<x,y,z>>)
    triangles,          \* argument triangles: Seq(<<i0,i1,i2>>)
    centroids,          \* local centroids
    nodes,              \* local nodes
    output_triangles,   \* local output_triangles
    stack,              \* activation records of build_node, top last
    retval,             \* value returned by the last finished build_node
    node_depth,         \* depth argument of the call that created each node
    \* ---- export_project (core/export_engine.py) ----
    epc,                \* main thread: "idle" | "start" | "spawn" | "join" | "done"
    mesh_objs,          \* local mesh_objs: Seq([name, materials])
    threads,            \* local threads, one record per started thread
    joined,             \* number of threads the join loop has passed
    target_files        \* names of the files present in target_dir

exportVars == <<pc, vertices, indices, primitive_groups, vertex_format_name,
                use_32bit_index, disk, fh, opens, err>>
pureVars == <<fn, arg, ret>>
bspVars == <<bpc, leafLimit, maxDepth, bvertices, triangles, centroids, nodes,
             output_triangles, stack, retval, node_depth>>
engineVars == <<epc, mesh_objs, threads, joined, target_files>>
vars == <<exportVars, pureVars, bspVars, engineVars>>

(***************************************************************************)
(* Bounds of the explored inputs                                           *)
(***************************************************************************)
MaxHead == 2        \* explicitly listed vertices of a vertex list
BigFill == 70001    \* length of the run of complete vertices that may follow
MaxIndices == 3     \* length of the index buffer
BigIndex == 70000   \* an index value that needs more than 16 bits
MaxGroups == 2      \* number of primitive groups
MaxWeights == 4     \* length of a weight list
MaxWeight == 3      \* largest weight value
MaxBoneList == 4    \* length of a bone index list
AngleGrid == 12      \* grid steps of a direction angle over half a turn
MaxNodes == 3       \* nodes of a BSP payload
MaxBspTris == 2     \* triangles of a BSP payload
MaxMeshes == 3      \* collision sub-meshes merged by one call

(***************************************************************************)
(* Generic helpers                                                         *)
(***************************************************************************)
Range(s) == {s[i] : i \in 1..Len(s)}

SeqsUpTo(S, n) == UNION {[1..k -> S] : k \in 0..n}

RECURSIVE SumSeq(_)
SumSeq(s) == IF s = <<>> THEN 0 ELSE s[1] + SumSeq(Tail(s))

MaxOfSet(S) == CHOOSE x \in S : \A y \in S : y <= x
MinOfSet(S) == CHOOSE x \in S : \A y \in S : x <= y

\* Python max(seq) of a non-empty list
max(s) == MaxOfSet(Range(s))

\* Python sorted(values) of numbers: position k holds the value v with fewer
\* than k values below v and at least k values not above v
sorted(s) ==
    [k \in 1..Len(s) |-> CHOOSE v \in Range(s) :
        /\ Cardinality({i \in 1..Len(s) : s[i] < v}) < k
        /\ k <= Cardinality({i \in 1..Len(s) : s[i] <= v})]

Reverse(s) == [i \in 1..Len(s) |-> s[Len(s) + 1 - i]]

Min2(a, b) == IF a <= b THEN a ELSE b
Max2(a, b) == IF a >= b THEN a ELSE b

(***************************************************************************)
(* utils/vertex_compression.py                                             *)
(***************************************************************************)
U16_MAX == 65535
U8_MAX == 255

\* clamp(x, lo, hi) = max(lo, min(hi, x))
clamp(x, lo, hi) == Max2(lo, Min2(hi, x))

\* Python 3 round() of the rational num/den (den > 0): ties go to even
round(num, den) ==
    LET q == num \div den
        r == num % den
    IN  IF 2 * r < den THEN q
        ELSE IF 2 * r > den THEN q + 1
        ELSE IF q % 2 = 0 THEN q ELSE q + 1

\* bitwise x & m for m >= 0; a negative x is read in two's complement
RECURSIVE AndNat(_, _)
AndNat(x, m) ==
    IF x = 0 \/ m = 0 THEN 0
    ELSE (IF x % 2 = 1 /\ m % 2 = 1 THEN 1 ELSE 0) + 2 * AndNat(x \div 2, m \div 2)

BitAnd(x, m) == IF x >= 0 THEN AndNat(x, m) ELSE m - AndNat(-1 - x, m)

\* w = sorted(weights, reverse=True)[:3], padded with 0.0 to length 3
TopThree(weights) ==
    LET d == Reverse(sorted(weights))
    IN  [i \in 1..3 |-> IF i <= Len(d) THEN d[i] ELSE 0]

\* quantize_weights_3: the normalized weight w[i] is the fraction n[i]/d
quantize_weights_3(weights) ==
    LET w == TopThree(weights)
        s == SumSeq(w)
        n == IF s <= 0 THEN <<1, 0, 0>> ELSE [i \in 1..3 |-> clamp(w[i], 0, s)]
        d == IF s <= 0 THEN 1 ELSE s
        q0 == round(n[1] * U8_MAX, d)
        q1 == round(n[2] * U8_MAX, d)
        q2 == U8_MAX - q0 - q1
    IN  <<clamp(q0, 0, U8_MAX), clamp(q1, 0, U8_MAX), clamp(q2, 0, U8_MAX)>>

\* mutant: missing slots are not padded with 0 but repeat the first index
quantize_indices_3_nopad(idx_in) ==
    LET cut == SubSeq(idx_in, 1, Min2(3, Len(idx_in)))
        idx == [i \in 1..3 |-> IF i <= Len(cut) THEN cut[i]
                               ELSE IF Len(cut) > 0 THEN cut[1] ELSE 0]
    IN  <<BitAnd(idx[1], 255), BitAnd(idx[2], 255), BitAnd(idx[3], 255)>>

\* quantize_indices_3
quantize_indices_3(idx_in) ==
    LET cut == SubSeq(idx_in, 1, Min2(3, Len(idx_in)))
        idx == [i \in 1..3 |-> IF i <= Len(cut) THEN cut[i] ELSE 0]
    IN  <<BitAnd(idx[1], 255), BitAnd(idx[2], 255), BitAnd(idx[3], 255)>>

\* Directions are unit vectors given by their angles on a grid: azimuth
\* phi = p * pi / AngleGrid and elevation theta = q * pi / (2 * AngleGrid),
\* p and q in -AngleGrid..AngleGrid; these are the values atan2 and asin of
\* lines 24-25 have on such a vector.

\* a packing that maps the elevation over the range of the azimuth
compress_dir_to_u16x2_same_range(p, q) ==
    <<clamp(round((p + AngleGrid) * U16_MAX, 2 * AngleGrid), 0, U16_MAX),
      clamp(round((q + 2 * AngleGrid) * U16_MAX, 4 * AngleGrid), 0, U16_MAX)>>

\* lines 28-32: phi01 = (phi + pi) / (2 pi) = (p + AngleGrid) / (2 AngleGrid),
\* theta01 = (theta + pi/2) / pi = (q + AngleGrid) / (2 AngleGrid),
\* u = int(clamp(round(phi01 * U16_MAX), 0, U16_MAX)), v likewise
compress_dir_to_u16x2(p, q) ==
    <<clamp(round((p + AngleGrid) * U16_MAX, 2 * AngleGrid), 0, U16_MAX),
      clamp(round((q + AngleGrid) * U16_MAX, 2 * AngleGrid), 0, U16_MAX)>>

\* lines 36-40: phi01 = clamp(u / U16_MAX, 0, 1), phi = phi01 * 2 pi - pi,
\* theta = theta01 * pi - pi/2.  The result is the pair <<a, e>> with
\* phi = a * pi / U16_MAX and theta = e * pi / (2 * U16_MAX), the angles of
\* the vector rebuilt in lines 43-46.
decompress_u16x2_to_dir(u, v) ==
    <<2 * clamp(u, 0, U16_MAX) - U16_MAX, 2 * clamp(v, 0, U16_MAX) - U16_MAX>>

(***************************************************************************)
(* formats/vertex_formats.py                                               *)
(***************************************************************************)
_attr(name, dtype, byte_size) ==
    [name |-> name, dtype |-> dtype, byte_size |-> byte_size]

POSITION_F32x3 == _attr("position", "f32x3", 12)
NORMAL_U16x2 == _attr("normal", "u16x2", 4)
UV_F32x2 == _attr("uv0", "f32x2", 8)
TANGENT_U16x2 == _attr("tangent", "u16x2", 4)
BINORMAL_U16x2 == _attr("binormal", "u16x2", 4)
BONE_IDX_U8x3 == _attr("bone_idx", "u8x3", 3)
BONE_W_U8x2 == _attr("bone_w", "u8x2", 2)

FormatNames == {"xyznuvtb", "xyznuviiiwwtb"}

REGISTERED_FORMATS ==
    [name \in FormatNames |->
        IF name = "xyznuvtb" THEN
            [identifier |-> "xyznuvtb",
             attributes |-> <<POSITION_F32x3, NORMAL_U16x2, UV_F32x2,
                              TANGENT_U16x2, BINORMAL_U16x2>>,
             vertex_size |-> POSITION_F32x3.byte_size + NORMAL_U16x2.byte_size
                             + UV_F32x2.byte_size + TANGENT_U16x2.byte_size
                             + BINORMAL_U16x2.byte_size,
             has_skinning |-> FALSE]
        ELSE
            [identifier |-> "xyznuviiiwwtb",
             attributes |-> <<POSITION_F32x3, NORMAL_U16x2, UV_F32x2,
                              BONE_IDX_U8x3, BONE_W_U8x2,
                              TANGENT_U16x2, BINORMAL_U16x2>>,
             vertex_size |-> POSITION_F32x3.byte_size + NORMAL_U16x2.byte_size
                             + UV_F32x2.byte_size + BONE_IDX_U8x3.byte_size
                             + BONE_W_U8x2.byte_size + TANGENT_U16x2.byte_size
                             + BINORMAL_U16x2.byte_size,
             has_skinning |-> TRUE]]

\* a vertex dictionary is modelled by its key set
StaticKeys == {"position", "normal", "uv0", "tangent", "binormal"}
SkinnedKeys == StaticKeys \cup {"bone_idx", "bone_w"}
AliasKeys == (StaticKeys \ {"uv0"}) \cup {"uv"}
NoNormalKeys == StaticKeys \ {"normal"}
NoUvNoNormalKeys == StaticKeys \ {"normal", "uv0"}

\* the vertices of the fill run of a vertex list carry these keys
FillKeys == StaticKeys

NumVertices(v) == Len(v.head) + v.fill

\* validate_vertex_dict: the missing keys, in format order
validate_vertex_dict(vtx, fmt) ==
    SelectSeq([i \in 1..Len(fmt.attributes) |-> fmt.attributes[i].name],
              LAMBDA a : a \notin vtx /\ ~(a = "uv0" /\ "uv" \in vtx))

\* mutant: the scan runs from the last vertex to the first
validate_vertices_last(v, fmt) ==
    LET bad == {i \in 1..Len(v.head) : validate_vertex_dict(v.head[i], fmt) # <<>>}
    IN  IF NumVertices(v) = 0 THEN [ok |-> FALSE, at |-> -1, missing |-> <<>>]
        ELSE IF v.fill > 0 /\ validate_vertex_dict(FillKeys, fmt) # <<>>
        THEN [ok |-> FALSE, at |-> NumVertices(v) - 1,
              missing |-> validate_vertex_dict(FillKeys, fmt)]
        ELSE IF bad # {}
        THEN [ok |-> FALSE, at |-> MaxOfSet(bad) - 1,
              missing |-> validate_vertex_dict(v.head[MaxOfSet(bad)], fmt)]
        ELSE [ok |-> TRUE, at |-> -1, missing |-> <<>>]

\* validate_vertices: (ok, message); the message carries the vertex index
\* (0-based) and the list of its missing keys
validate_vertices(v, fmt) ==
    LET bad == {i \in 1..Len(v.head) : validate_vertex_dict(v.head[i], fmt) # <<>>}
    IN  IF NumVertices(v) = 0 THEN [ok |-> FALSE, at |-> -1, missing |-> <<>>]
        ELSE IF bad # {}
        THEN [ok |-> FALSE, at |-> MinOfSet(bad) - 1,
              missing |-> validate_vertex_dict(v.head[MinOfSet(bad)], fmt)]
        ELSE IF v.fill > 0 /\ validate_vertex_dict(FillKeys, fmt) # <<>>
        THEN [ok |-> FALSE, at |-> Len(v.head),
              missing |-> validate_vertex_dict(FillKeys, fmt)]
        ELSE [ok |-> TRUE, at |-> -1, missing |-> <<>>]

(***************************************************************************)
(* utils/validation.py                                                     *)
(***************************************************************************)
\* validate_primitives: the ValidationError raised, "ok" when none.
\* nv is len(vertices); a group g is <<startIndex, numPrims, startVertex,
\* numVertices>>
validate_primitives(nv, ix, groups) ==
    IF nv = 0 THEN "EmptyInput"
    ELSE IF Len(ix) = 0 THEN "EmptyInput"
    ELSE IF Len(groups) = 0 THEN "EmptyInput"
    ELSE IF max(ix) >= nv THEN "IndexOutOfRange"
    ELSE IF \E k \in 1..Len(groups) :
                \/ groups[k][1] + groups[k][2] * 3 > Len(ix)
                \/ groups[k][3] + groups[k][4] > nv
         THEN "GroupRangeExceeded"
    ELSE "ok"

(***************************************************************************)
(* formats/primitives_format.py                                            *)
(***************************************************************************)
\* keys of the format missing from a vertex dictionary (no alias here)
MissingKeys(vtx, fmt) ==
    {fmt.attributes[i].name : i \in 1..Len(fmt.attributes)} \ vtx

\* index of the first vertex with a missing key, -1 when there is none
FirstMissingVertex(v, fmt) ==
    LET bad == {i \in 1..Len(v.head) : MissingKeys(v.head[i], fmt) # {}}
    IN  IF bad # {} THEN MinOfSet(bad) - 1
        ELSE IF v.fill > 0 /\ MissingKeys(FillKeys, fmt) # {} THEN Len(v.head)
        ELSE -1

\* mutant: the index range end is compared with > instead of >=
GroupError_off_by_one(g, ix, nv) ==
    IF g[1] < 0 \/ g[2] <= 0 \/ g[3] < 0 \/ g[4] <= 0 THEN "InvalidGroupStats"
    ELSE IF g[1] + g[2] * 3 - 1 > Len(ix) THEN "GroupRangeExceeded"
    ELSE IF g[3] + g[4] - 1 >= nv THEN "GroupRangeExceeded"
    ELSE "ok"

\* body of the loop over primitive_groups: the error one group raises
GroupError(g, ix, nv) ==
    IF g[1] < 0 \/ g[2] <= 0 \/ g[3] < 0 \/ g[4] <= 0 THEN "InvalidGroupStats"
    ELSE IF g[1] + g[2] * 3 - 1 >= Len(ix) THEN "GroupRangeExceeded"
    ELSE IF g[3] + g[4] - 1 >= nv THEN "GroupRangeExceeded"
    ELSE "ok"

\* mutant: only the first index is compared with the vertex count
IndexError_first_only(ix, nv) ==
    IF Len(ix) = 0 THEN "EmptyInput"
    ELSE IF \E i \in 1..Len(ix) : ix[i] < 0 THEN "NegativeIndex"
    ELSE IF ix[1] >= nv THEN "IndexOutOfRange"
    ELSE "ok"

\* "index sanity" block of _validate_inputs
IndexError(ix, nv) ==
    IF Len(ix) = 0 THEN "EmptyInput"
    ELSE IF \E i \in 1..Len(ix) : ix[i] < 0 THEN "NegativeIndex"
    ELSE IF max(ix) >= nv THEN "IndexOutOfRange"
    ELSE "ok"

\* _validate_inputs: the ValidationError raised, "ok" when none
_validate_inputs(v, ix, groups, fmt) ==
    LET nv == NumVertices(v)
        badg == {k \in 1..Len(groups) : GroupError(groups[k], ix, nv) # "ok"}
    IN  IF nv = 0 THEN "EmptyInput"
        ELSE IF FirstMissingVertex(v, fmt) # -1 THEN "MissingAttribute"
        ELSE IF IndexError(ix, nv) # "ok" THEN IndexError(ix, nv)
        ELSE IF Len(groups) = 0 THEN "EmptyInput"
        ELSE IF badg # {} THEN GroupError(groups[MinOfSet(badg)], ix, nv)
        ELSE "ok"

\* what the file holds: a sequence of written fields
Id64(name) == [t |-> "id64", s |-> name, n |-> 64]
U32(x) == [t |-> "u32", s |-> "", n |-> x]
U16(x) == [t |-> "u16", s |-> "", n |-> x]
VertexData(ident, count) == [t |-> "vertices", s |-> ident, n |-> count]

\* _write_vertex_section: the fields appended to f
_write_vertex_section(v, fmt) ==
    <<Id64(fmt.identifier), U32(NumVertices(v)),
      VertexData(fmt.identifier, NumVertices(v))>>

\* a bone weight branch that also stores the implied third weight
AttrWrites_three_weights(name) ==
    IF name = "position" THEN <<"f32", "f32", "f32">>
    ELSE IF name \in {"normal", "tangent", "binormal"} THEN <<"u16", "u16">>
    ELSE IF name = "uv0" THEN <<"f32", "f32">>
    ELSE IF name = "bone_idx" THEN <<"u8", "u8", "u8">>
    ELSE IF name = "bone_w" THEN <<"u8", "u8", "u8">>
    ELSE <<>>

\* _write_vertex, lines 189-233: the write calls made for one attribute
\* (write_f32, write_u16, write_u8), by the branch taken for its name
AttrWrites(name) ==
    IF name = "position" THEN <<"f32", "f32", "f32">>
    ELSE IF name \in {"normal", "tangent", "binormal"} THEN <<"u16", "u16">>
    ELSE IF name = "uv0" THEN <<"f32", "f32">>
    ELSE IF name = "bone_idx" THEN <<"u8", "u8", "u8">>
    ELSE IF name = "bone_w" THEN <<"u8", "u8">>
    ELSE <<>>

\* _write_vertex, line 188: one group of writes per attribute of the format,
\* in the order of fmt.attributes.  The values written are not modelled.
_write_vertex(vtx, fmt) ==
    [i \in 1..Len(fmt.attributes) |->
        [attr |-> fmt.attributes[i].name,
         writes |-> AttrWrites(fmt.attributes[i].name)]]

\* lines 143-147 with the payload per vertex: the header fields, the writes
\* of every listed vertex, and the writes of one vertex of the run
VertexSectionWrites(v, fmt) ==
    [header |-> <<Id64(fmt.identifier), U32(NumVertices(v))>>,
     head |-> [i \in 1..Len(v.head) |-> _write_vertex(v.head[i], fmt)],
     fill |-> _write_vertex(FillKeys, fmt),
     fill_count |-> v.fill]

\* _write_index_section up to the raw index data: header and counts
IndexHeader(ix, groups, use32) ==
    <<Id64(IF use32 THEN "list32" ELSE "list"), U32(Len(ix)), U32(Len(groups))>>

\* raw index data
IndexData(ix, use32) ==
    [i \in 1..Len(ix) |-> IF use32 THEN U32(ix[i]) ELSE U16(ix[i])]

RECURSIVE GroupData(_)
GroupData(groups) ==
    IF groups = <<>> THEN <<>>
    ELSE <<U32(groups[1][1]), U32(groups[1][2]), U32(groups[1][3]),
           U32(groups[1][4])>> \o GroupData(Tail(groups))

\* the 16-bit range check made inside _write_index_section
IndexRangeExceeded(ix, use32) == ~use32 /\ max(ix) > 65535

\* -------- actions of one call of export_primitives_file --------

\* lines 74-77: get_vertex_format and _validate_inputs
Validate ==
    /\ pc = "call"
    /\ IF vertex_format_name \notin DOMAIN REGISTERED_FORMATS
       THEN pc' = "failed" /\ err' = "UnknownFormat"
       ELSE LET e == _validate_inputs(vertices, indices, primitive_groups,
                                      REGISTERED_FORMATS[vertex_format_name])
            IN  IF e # "ok" THEN pc' = "failed" /\ err' = e
                ELSE pc' = "validated" /\ err' = err
    /\ UNCHANGED <<vertices, indices, primitive_groups, vertex_format_name,
                   use_32bit_index, disk, fh, opens>>
    /\ UNCHANGED <<pureVars, bspVars, engineVars>>

\* lines 79-80: create_directory and open(filepath, "wb")
OpenFile ==
    /\ pc = "validated"
    /\ disk' = [exists |-> TRUE, data |-> <<>>]
    /\ fh' = "open"
    /\ opens' = opens + 1
    /\ pc' = "vertex_section"
    /\ UNCHANGED <<vertices, indices, primitive_groups, vertex_format_name,
                   use_32bit_index, err>>
    /\ UNCHANGED <<pureVars, bspVars, engineVars>>

\* line 81
WriteVertexSection ==
    /\ pc = "vertex_section"
    /\ disk' = [disk EXCEPT !.data = @ \o
                  _write_vertex_section(vertices,
                                        REGISTERED_FORMATS[vertex_format_name])]
    /\ pc' = "index_section"
    /\ UNCHANGED <<vertices, indices, primitive_groups, vertex_format_name,
                   use_32bit_index, fh, opens, err>>
    /\ UNCHANGED <<pureVars, bspVars, engineVars>>

\* a with block that closes f only when its body ends without an exception
WithExit_leak_on_raise(h, raised) == IF raised THEN h ELSE "closed"

\* line 80: "with open(filepath, "wb") as f" closes f when the block is left,
\* by its last statement or by an exception
WithExit(h, raised) == "closed"

\* line 82 and the exit of the with block: the header is written, then the
\* range check may raise; the with block closes f on both paths
WriteIndexSection ==
    /\ pc = "index_section"
    /\ IF IndexRangeExceeded(indices, use_32bit_index)
       THEN /\ disk' = [disk EXCEPT !.data = @ \o
                          IndexHeader(indices, primitive_groups, use_32bit_index)]
            /\ pc' = "failed"
            /\ err' = "IndexRangeExceeded"
       ELSE /\ disk' = [disk EXCEPT !.data = @ \o
                          IndexHeader(indices, primitive_groups, use_32bit_index)
                          \o IndexData(indices, use_32bit_index)
                          \o GroupData(primitive_groups)]
            /\ pc' = "done"
            /\ err' = err
    /\ fh' = WithExit(fh, IndexRangeExceeded(indices, use_32bit_index))
    /\ UNCHANGED <<vertices, indices, primitive_groups, vertex_format_name,
                   use_32bit_index, opens>>
    /\ UNCHANGED <<pureVars, bspVars, engineVars>>

(***************************************************************************)
(* formats/bsp_format.py                                                   *)
(* A payload is [given, nodes, triangles]; given = FALSE stands for        *)
(* bsp_data = None.  Nodes are records [plane, childA, childB, triStart,   *)
(* triCount], triangles are tuples of integers.                            *)
(***************************************************************************)
BSP_IDENTIFIER == "bsp"

F32(x) == [t |-> "f32", s |-> "", n |-> x]
I32(x) == [t |-> "i32", s |-> "", n |-> x]

\* lines 45-60: the checks made on one node of a list of count nodes
NodeError(nd, count) ==
    IF Len(nd.plane) # 4 THEN "BadPlane"
    ELSE IF nd.childA = -1 /\ nd.childB = -1
    THEN IF nd.triCount < 0 THEN "NegativeTriCount" ELSE "ok"
    ELSE IF ~(0 <= nd.childA /\ nd.childA < count
              /\ 0 <= nd.childB /\ nd.childB < count)
    THEN "ChildrenOutOfRange"
    ELSE "ok"

\* lines 64-67: the checks made on one triangle
TriangleError(tr) ==
    IF Len(tr) # 3 THEN "BadTriangle"
    ELSE IF tr[1] < 0 \/ tr[2] < 0 \/ tr[3] < 0 THEN "NegativeTriangleIndex"
    ELSE "ok"

\* lines 33-69: the error of the first node that fails a check, else of the
\* first triangle that fails one, else the two lists
_validate_bsp_payload(bsp_data) ==
    IF ~bsp_data.given
    THEN [err |-> "ok", nodes |-> <<>>, triangles |-> <<>>]
    ELSE LET ns == bsp_data.nodes
             ts == bsp_data.triangles
             badn == {i \in 1..Len(ns) : NodeError(ns[i], Len(ns)) # "ok"}
             badt == {i \in 1..Len(ts) : TriangleError(ts[i]) # "ok"}
         IN  IF badn # {}
             THEN [err |-> NodeError(ns[MinOfSet(badn)], Len(ns)),
                   nodes |-> <<>>, triangles |-> <<>>]
             ELSE IF badt # {}
             THEN [err |-> TriangleError(ts[MinOfSet(badt)]),
                   nodes |-> <<>>, triangles |-> <<>>]
             ELSE [err |-> "ok", nodes |-> ns, triangles |-> ts]

\* lines 98-103: the eight fields of one node
NodeFields(nd) ==
    <<F32(nd.plane[1]), F32(nd.plane[2]), F32(nd.plane[3]), F32(nd.plane[4]),
      I32(nd.childA), I32(nd.childB), U32(nd.triStart), U32(nd.triCount)>>

\* lines 89-107: the fields of the section in the order they are written
BspFields(ns, ts) ==
    <<Id64(BSP_IDENTIFIER), U32(Len(ns)), U32(Len(ts))>>
    \o [j \in 1..(8 * Len(ns)) |-> NodeFields(ns[((j - 1) \div 8) + 1])[((j - 1) % 8) + 1]]
    \o [j \in 1..(3 * Len(ts)) |-> U32(ts[((j - 1) \div 3) + 1][((j - 1) % 3) + 1])]

\* write_u32 packs an unsigned 32-bit field: a negative value cannot be
\* packed and the call raises at that field
write_u32_raises(field) == field.t = "u32" /\ field.n < 0

\* lines 72-107: validation first; then the fields are written one by one,
\* up to the first one that cannot be packed.  The result is the error
\* raised ("" if none) and the fields appended to f.
write_bsp_section(bsp_data) ==
    LET v == _validate_bsp_payload(bsp_data)
        fields == BspFields(v.nodes, v.triangles)
        bad == {j \in 1..Len(fields) : write_u32_raises(fields[j])}
    IN  IF v.err # "ok" THEN [err |-> v.err, out |-> <<>>]
        ELSE IF bad # {}
        THEN [err |-> "struct.error", out |-> SubSeq(fields, 1, MinOfSet(bad) - 1)]
        ELSE [err |-> "", out |-> fields]

(***************************************************************************)
(* core/collision_processor.py                                             *)
(***************************************************************************)
LeafTriangleLimit == 128
MaxDepth == 16

\* _triangle_centroid: (v0 + v1 + v2) / 3.0 per coordinate.  The explored
\* coordinates are multiples of 6, so the division is exact and the
\* centroid coordinates are even.
_triangle_centroid(verts, tri) ==
    [c \in 1..3 |-> (verts[tri[1] + 1][c] + verts[tri[2] + 1][c]
                     + verts[tri[3] + 1][c]) \div 3]

\* a median that takes the upper middle element for an even count
_median_upper(values) ==
    LET vs == sorted(values)
        n == Len(values)
    IN  IF n = 0 THEN 0 ELSE vs[n \div 2 + 1]

\* a median whose choice between the two middle elements of an even count
\* depends on how many nodes exist when it is called, not on its argument
_median_unstable(values) ==
    LET vs == sorted(values)
        n == Len(values)
    IN  IF n = 0 THEN 0
        ELSE IF n % 2 = 1 THEN vs[n \div 2 + 1]
        ELSE vs[n \div 2 + (Len(nodes) % 2)]

\* _median: middle element of the sorted values for an odd count, mean of
\* the two middle elements for an even count (exact on even integers), 0.0
\* for no value
_median(values) ==
    LET vs == sorted(values)
        n == Len(values)
    IN  IF n = 0 THEN 0
        ELSE IF n % 2 = 1 THEN vs[n \div 2 + 1]
        ELSE (vs[n \div 2] + vs[n \div 2 + 1]) \div 2

\* [centroids[i][axis] for i in idx_list]; idx_list holds 0-based triangle
\* numbers, axis is 0, 1 or 2
AxisValues(idx_list, axis) ==
    [k \in 1..Len(idx_list) |-> centroids[idx_list[k] + 1][axis + 1]]

\* a leaf condition that splits a list of exactly leafLimit triangles
IsLeaf_strict(idx_list, depth) == depth >= maxDepth \/ Len(idx_list) < leafLimit

\* mutant: the depth is not part of the leaf condition
IsLeaf_no_depth(idx_list, depth) == Len(idx_list) <= leafLimit

\* mutant: the depth comparison is reversed
IsLeaf_depth_reversed(idx_list, depth) ==
    depth <= maxDepth \/ Len(idx_list) <= leafLimit

\* leaf condition of build_node
IsLeaf(idx_list, depth) == depth >= maxDepth \/ Len(idx_list) <= leafLimit

\* mutant: the right list takes the centroids >= median
SplitLists_overlap(idx_list, axis) ==
    LET median == _median(AxisValues(idx_list, axis))
        left_list == SelectSeq(idx_list,
                         LAMBDA i : centroids[i + 1][axis + 1] <= median)
        right_list == SelectSeq(idx_list,
                         LAMBDA i : centroids[i + 1][axis + 1] >= median)
        half == Len(idx_list) \div 2
    IN  IF left_list = <<>> \/ right_list = <<>>
        THEN [left |-> SubSeq(idx_list, 1, half),
              right |-> SubSeq(idx_list, half + 1, Len(idx_list)),
              median |-> median]
        ELSE [left |-> left_list, right |-> right_list, median |-> median]

\* a split without the fallback of lines 157-161
SplitLists_no_fallback(idx_list, axis) ==
    LET median == _median(AxisValues(idx_list, axis))
    IN  [left |-> SelectSeq(idx_list,
                      LAMBDA i : centroids[i + 1][axis + 1] <= median),
         right |-> SelectSeq(idx_list,
                      LAMBDA i : centroids[i + 1][axis + 1] > median),
         median |-> median]

\* the split of an internal node: left_list, right_list and the median
SplitLists(idx_list, axis) ==
    LET median == _median(AxisValues(idx_list, axis))
        left_list == SelectSeq(idx_list,
                         LAMBDA i : centroids[i + 1][axis + 1] <= median)
        right_list == SelectSeq(idx_list,
                         LAMBDA i : centroids[i + 1][axis + 1] > median)
        half == Len(idx_list) \div 2
    IN  IF left_list = <<>> \/ right_list = <<>>
        THEN [left |-> SubSeq(idx_list, 1, half),
              right |-> SubSeq(idx_list, half + 1, Len(idx_list)),
              median |-> median]
        ELSE [left |-> left_list, right |-> right_list, median |-> median]

\* plane = [0,0,0,0]; plane[axis] = 1.0; plane[3] = -median
AxisPlane(axis, median) ==
    <<IF axis = 0 THEN 1 ELSE 0, IF axis = 1 THEN 1 ELSE 0,
      IF axis = 2 THEN 1 ELSE 0, -median>>

\* lines 120-185 as the recursive function they define: the nodes and the
\* output triangles that a call of build_node appends when the node array
\* holds node_base nodes and the output array tri_base triangles
RECURSIVE build_node(_, _, _, _, _)
build_node(idx_list, depth, axis, node_base, tri_base) ==
    IF IsLeaf(idx_list, depth)
    THEN [nodes |-> <<[plane |-> AxisPlane(axis, _median(AxisValues(idx_list, axis))),
                       childA |-> -1, childB |-> -1,
                       triStart |-> tri_base, triCount |-> Len(idx_list)]>>,
          out |-> [k \in 1..Len(idx_list) |-> triangles[idx_list[k] + 1]]]
    ELSE LET sp == SplitLists(idx_list, axis)
             l == build_node(sp.left, depth + 1, (axis + 1) % 3,
                             node_base + 1, tri_base)
             r == build_node(sp.right, depth + 1, (axis + 1) % 3,
                             node_base + 1 + Len(l.nodes), tri_base + Len(l.out))
         IN  [nodes |-> <<[plane |-> AxisPlane(axis, sp.median),
                           childA |-> node_base + 1,
                           childB |-> node_base + 1 + Len(l.nodes),
                           triStart |-> 0, triCount |-> 0]>>
                        \o l.nodes \o r.nodes,
              out |-> l.out \o r.out]

\* an activation record of build_node
Frame(idx_list, depth, axis) ==
    [idx_list |-> idx_list, depth |-> depth, axis |-> axis, phase |-> "enter",
     node_index |-> -1, right_list |-> <<>>, left_idx |-> -1]

Top == stack[Len(stack)]
Pop == SubSeq(stack, 1, Len(stack) - 1)

\* -------- actions of one call of _build_bsp --------

\* lines 113-118 and 187: centroids, tri_indices, the empty lists and the
\* call build_node(tri_indices, 0, axis=0)
BuildStart ==
    /\ bpc = "start"
    /\ centroids' = [i \in 1..Len(triangles) |->
                        _triangle_centroid(bvertices, triangles[i])]
    /\ nodes' = <<>>
    /\ output_triangles' = <<>>
    /\ node_depth' = <<>>
    /\ stack' = <<Frame([i \in 1..Len(triangles) |-> i - 1], 0, 0)>>
    /\ retval' = -1
    /\ bpc' = "run"
    /\ UNCHANGED <<leafLimit, maxDepth, bvertices, triangles>>
    /\ UNCHANGED <<exportVars, pureVars, engineVars>>

\* a leaf range whose start is read after the triangles were appended
LeafRange_after_append(out, idx_list) ==
    [triStart |-> Len(out) + Len(idx_list), triCount |-> Len(idx_list)]

\* lines 128 and 131: tri_start = len(output_triangles) before the leaf's
\* triangles are appended, tri_count = len(idx_list)
LeafRange(out, idx_list) == [triStart |-> Len(out), triCount |-> Len(idx_list)]

\* lines 126-148: the call on top of the stack makes a leaf and returns
BuildLeaf ==
    /\ bpc = "run" /\ stack # <<>> /\ Top.phase = "enter"
    /\ IsLeaf(Top.idx_list, Top.depth)
    /\ output_triangles' = output_triangles \o
           [k \in 1..Len(Top.idx_list) |-> triangles[Top.idx_list[k] + 1]]
    /\ nodes' = Append(nodes,
           [plane |-> AxisPlane(Top.axis, _median(AxisValues(Top.idx_list, Top.axis))),
            childA |-> -1, childB |-> -1,
            triStart |-> LeafRange(output_triangles, Top.idx_list).triStart,
            triCount |-> LeafRange(output_triangles, Top.idx_list).triCount])
    /\ node_depth' = Append(node_depth, Top.depth)
    /\ retval' = Len(nodes)
    /\ stack' = Pop
    /\ UNCHANGED <<bpc, leafLimit, maxDepth, bvertices, triangles, centroids>>
    /\ UNCHANGED <<exportVars, pureVars, engineVars>>

\* lines 150-179: split, reserve the node, call build_node on left_list
BuildSplit ==
    /\ bpc = "run" /\ stack # <<>> /\ Top.phase = "enter"
    /\ ~IsLeaf(Top.idx_list, Top.depth)
    /\ LET sp == SplitLists(Top.idx_list, Top.axis)
       IN  /\ nodes' = Append(nodes,
                  [plane |-> AxisPlane(Top.axis, sp.median),
                   childA |-> -1, childB |-> -1, triStart |-> 0, triCount |-> 0])
           /\ node_depth' = Append(node_depth, Top.depth)
           /\ stack' = Append(
                  Pop \o
                  <<[Top EXCEPT !.phase = "left", !.node_index = Len(nodes),
                                !.right_list = sp.right]>>,
                  Frame(sp.left, Top.depth + 1, (Top.axis + 1) % 3))
    /\ retval' = -1
    /\ UNCHANGED <<bpc, leafLimit, maxDepth, bvertices, triangles, centroids,
                   output_triangles>>
    /\ UNCHANGED <<exportVars, pureVars, engineVars>>

\* line 180: the left call has returned, call build_node on right_list
BuildRight ==
    /\ bpc = "run" /\ stack # <<>> /\ Top.phase = "left"
    /\ stack' = Append(
           Pop \o <<[Top EXCEPT !.phase = "right", !.left_idx = retval]>>,
           Frame(Top.right_list, Top.depth + 1, (Top.axis + 1) % 3))
    /\ retval' = -1
    /\ UNCHANGED <<bpc, leafLimit, maxDepth, bvertices, triangles, centroids,
                   nodes, output_triangles, node_depth>>
    /\ UNCHANGED <<exportVars, pureVars, engineVars>>

\* a backfill that leaves childB of the reserved node unset
Backfill_left_only(nd, left_idx, right_idx) == [nd EXCEPT !.childA = left_idx]

\* a backfill that writes the two indices into the wrong fields
Backfill_swapped(nd, left_idx, right_idx) ==
    [nd EXCEPT !.childA = right_idx, !.childB = left_idx]

\* a backfill that stores the right child one too high
Backfill_right_plus_one(nd, left_idx, right_idx) ==
    [nd EXCEPT !.childA = left_idx, !.childB = right_idx + 1]

\* lines 183-184: nodes[node_index]["childA"] = left_idx, ["childB"] = right_idx
Backfill(nd, left_idx, right_idx) ==
    [nd EXCEPT !.childA = left_idx, !.childB = right_idx]

\* lines 183-185: the right call has returned, write the child indices into
\* the reserved node and return its index
BuildBackfill ==
    /\ bpc = "run" /\ stack # <<>> /\ Top.phase = "right"
    /\ nodes' = [nodes EXCEPT ![Top.node_index + 1] =
                    Backfill(@, Top.left_idx, retval)]
    /\ retval' = Top.node_index
    /\ stack' = Pop
    /\ UNCHANGED <<bpc, leafLimit, maxDepth, bvertices, triangles, centroids,
                   output_triangles, node_depth>>
    /\ UNCHANGED <<exportVars, pureVars, engineVars>>

\* line 188: return nodes, output_triangles
BuildReturn ==
    /\ bpc = "run" /\ stack = <<>>
    /\ bpc' = "done"
    /\ UNCHANGED <<leafLimit, maxDepth, bvertices, triangles, centroids, nodes,
                   output_triangles, stack, retval, node_depth>>
    /\ UNCHANGED <<exportVars, pureVars, engineVars>>

(***************************************************************************)
(* core/collision_processor.py: the merge loop of collect_bsp_for_object   *)
(* A collision mesh is [world, verts, tris]: the object's world matrix,    *)
(* the local vertex coordinates and the triangles as local vertex indices  *)
(* (mesh.loops[tri.loops[c]].vertex_index).                                *)
(***************************************************************************)
\* line 70: local_positions = [world_m @ v.co for v in mesh.vertices]; the
\* transformed position is the pair of the matrix and the local coordinate
local_positions(mesh) == [i \in 1..Len(mesh.verts) |-> <<mesh.world, mesh.verts[i]>>]

\* lines 74-78: the triangles of a mesh with the running offset added
OffsetTriangles(mesh, vertex_offset) ==
    [j \in 1..Len(mesh.tris) |->
        [c \in 1..3 |-> mesh.tris[j][c] + vertex_offset]]

\* an offset that is set to the size of the last mesh instead of advanced
NextOffset_not_accumulated(vertex_offset, mesh) == Len(mesh.verts)

\* line 79: vertex_offset += len(mesh.vertices)
NextOffset(vertex_offset, mesh) == vertex_offset + Len(mesh.verts)

\* lines 61-79: the loop over col_meshes from mesh k on
RECURSIVE MergeMeshes(_, _, _, _, _)
MergeMeshes(col_meshes, k, global_vertices, tris, vertex_offset) ==
    IF k > Len(col_meshes)
    THEN [vertices |-> global_vertices, triangles |-> tris]
    ELSE MergeMeshes(col_meshes, k + 1,
                     global_vertices \o local_positions(col_meshes[k]),
                     tris \o OffsetTriangles(col_meshes[k], vertex_offset),
                     NextOffset(vertex_offset, col_meshes[k]))

(***************************************************************************)
(* Explored inputs                                                         *)
(***************************************************************************)
VertexShapes == {StaticKeys, AliasKeys, NoNormalKeys}

VertexLists(shapes) ==
    {[head |-> h, fill |-> f] : h \in SeqsUpTo(shapes, MaxHead), f \in {0, BigFill}}

\* index buffers: all 0 except at most one entry
IndexLists ==
    {[i \in 1..n |-> IF i = p THEN x ELSE 0] :
        n \in 0..MaxIndices, p \in 1..MaxIndices, x \in {-1, 0, 1, BigIndex}}

BaseGroup == <<0, 1, 0, 1>>
GroupChoices == {BaseGroup, <<1, 1, 0, 1>>, <<0, 1, 1, 1>>, <<0, 0, 0, 1>>}

\* group tables: BaseGroup except at most one entry
GroupLists ==
    {[k \in 1..n |-> IF k = p THEN g ELSE BaseGroup] :
        n \in 0..MaxGroups, p \in 1..MaxGroups, g \in GroupChoices}

OldFile == [exists |-> TRUE, data |-> <<[t |-> "old", s |-> "", n |-> 0]>>]
NoFile == [exists |-> FALSE, data |-> <<>>]

EngineIdle ==
    /\ epc = "idle" /\ mesh_objs = <<>> /\ threads = <<>> /\ joined = 0
    /\ target_files = {}

ExportIdle ==
    /\ pc = "idle" /\ vertices = [head |-> <<>>, fill |-> 0] /\ indices = <<>>
    /\ primitive_groups = <<>> /\ vertex_format_name = "" /\ use_32bit_index = FALSE
    /\ disk = NoFile /\ fh = "none" /\ opens = 0 /\ err = ""

PureIdle == fn = "" /\ arg = <<>> /\ ret = <<>>

BspIdle ==
    /\ bpc = "idle" /\ leafLimit = 0 /\ maxDepth = 0 /\ bvertices = <<>>
    /\ triangles = <<>> /\ centroids = <<>> /\ nodes = <<>>
    /\ output_triangles = <<>> /\ stack = <<>> /\ retval = -1 /\ node_depth = <<>>

(***************************************************************************)
(* SpecExport: one call of export_primitives_file                          *)
(***************************************************************************)
InitExport ==
    /\ pc = "call"
    /\ vertices \in VertexLists(VertexShapes)
    /\ indices \in IndexLists
    /\ primitive_groups \in GroupLists
    /\ vertex_format_name \in {"xyznuvtb", "xyz"}
    /\ use_32bit_index \in BOOLEAN
    /\ disk \in {NoFile, OldFile}
    /\ fh = "none" /\ opens = 0 /\ err = ""
    /\ PureIdle /\ BspIdle /\ EngineIdle

NextExport == Validate \/ OpenFile \/ WriteVertexSection \/ WriteIndexSection

SpecExport == InitExport /\ [][NextExport]_vars

(***************************************************************************)
(* SpecPure: one call of a pure helper on an argument drawn in Init        *)
(***************************************************************************)
WeightLists == SeqsUpTo(-1..MaxWeight, MaxWeights)
BoneLists == SeqsUpTo({-1, 0, 7, 255, 256, 300}, MaxBoneList)
PureShapes == VertexShapes \cup {NoUvNoNormalKeys, SkinnedKeys}

\* grid directions; at the poles x = y = 0 and atan2 gives 0 or +-pi
Directions ==
    {d \in (-AngleGrid..AngleGrid) \X (-AngleGrid..AngleGrid) :
        d[2] \in {-AngleGrid, AngleGrid} => d[1] \in {-AngleGrid, 0, AngleGrid}}

UnitPlane == <<1, 0, 0, 0>>
BspNode(ca, cb, ts, tc) ==
    [plane |-> UnitPlane, childA |-> ca, childB |-> cb,
     triStart |-> ts, triCount |-> tc]

\* a good leaf, leaves with a range beyond the triangles, a negative start,
\* a negative count, a good internal node, internal nodes with a triangle
\* count, with one child, with a child beyond the nodes, and a leaf with a
\* three-component plane
NodeChoices ==
    {BspNode(-1, -1, 0, 1), BspNode(-1, -1, 1, 5), BspNode(-1, -1, -1, 1),
     BspNode(-1, -1, 0, -1), BspNode(1, 2, 0, 0), BspNode(1, 2, 0, 2),
     BspNode(1, -1, 0, 0), BspNode(1, MaxNodes, 0, 0),
     [BspNode(-1, -1, 0, 1) EXCEPT !.plane = <<1, 0, 0>>]}

BspNone == [given |-> FALSE, nodes |-> <<>>, triangles |-> <<>>]

(***************************************************************************)
(* ModelProcessor._collect_geometry (src/core/model_processor.py): the     *)
(* primitive groups built while walking mesh.loop_triangles.  A triangle   *)
(* is its material index; triangle k appends vertices 3(k-1)..3(k-1)+2 and *)
(* the same three numbers to the index list.                               *)
(***************************************************************************)
MaxTriMats == 3
Materials == {0, 1}

\* position of material m in the dict mat_to_group (insertion order), 0 if absent
GroupOf(groups, m) ==
    IF \E i \in 1..Len(groups) : groups[i].mat = m
    THEN CHOOSE i \in 1..Len(groups) : groups[i].mat = m
    ELSE 0

\* lines 119-128: a material seen for the first time opens a group at the
\* current ends of the index and vertex lists
InitGroup(groups, m, num_indices, num_vertices) ==
    IF GroupOf(groups, m) = 0
    THEN Append(groups, [mat |-> m, startIndex |-> num_indices, numPrims |-> 0,
                         startVertex |-> num_vertices, numVertices |-> 0])
    ELSE groups

\* lines 193-199 after the triangle's three vertices and indices were appended
CountTriangle(groups, m, num_vertices) ==
    LET i == GroupOf(groups, m)
    IN  [groups EXCEPT ![i].numPrims = @ + 1,
                       ![i].numVertices = num_vertices - groups[i].startVertex]

\* the loop of lines 116-199 from triangle k on; lines 202-205 emit the
\* groups in insertion order
RECURSIVE _collect_geometry(_, _, _)
_collect_geometry(mats, k, groups) ==
    IF k > Len(mats) THEN groups
    ELSE LET opened == InitGroup(groups, mats[k], 3 * (k - 1), 3 * (k - 1))
         IN  _collect_geometry(mats, k + 1,
                               CountTriangle(opened, mats[k], 3 * k))

MaterialLists == SeqsUpTo(Materials, MaxTriMats)

\* vertex lists the writer is called with: every vertex carries the keys
\* _write_vertex reads; complete vertices in a run only for the static format
WritableLists(name) ==
    {v \in VertexLists({StaticKeys, SkinnedKeys}) :
        /\ NumVertices(v) > 0
        /\ FirstMissingVertex(v, REGISTERED_FORMATS[name]) = -1}

\* collision meshes: without vertices, with one, two or three vertices,
\* with and without triangles; every local index is a vertex of its mesh
MeshChoices ==
    {[verts |-> <<>>, tris |-> <<>>],
     [verts |-> <<10>>, tris |-> <<<<0, 0, 0>>>>],
     [verts |-> <<20, 21>>, tris |-> <<<<0, 1, 1>>, <<1, 0, 0>>>>],
     [verts |-> <<30, 31, 32>>, tris |-> <<<<0, 1, 2>>>>],
     [verts |-> <<40, 41, 42>>, tris |-> <<>>]}

\* the k-th collision object carries world matrix k
MeshLists ==
    {[k \in 1..Len(ms) |->
        [world |-> k, verts |-> ms[k].verts, tris |-> ms[k].tris]] :
        ms \in SeqsUpTo(MeshChoices, MaxMeshes)}

\* triangle lists: <<0, 1, 2>> except at most one entry, which may hold a
\* negative index or only two indices
BspTriLists ==
    {[i \in 1..n |-> IF i = p THEN x ELSE <<0, 1, 2>>] :
        n \in 0..MaxBspTris, p \in 1..MaxBspTris,
        x \in {<<0, 1, 2>>, <<0, -1, 2>>, <<0, 1>>}}

BspPayloads ==
    {BspNone} \cup
    {[given |-> TRUE, nodes |-> ns, triangles |-> ts] :
        ns \in SeqsUpTo(NodeChoices, MaxNodes), ts \in BspTriLists}

InitPure ==
    /\ fn = "" /\ ret = <<>>
    /\ \/ \E w \in WeightLists : arg = [f |-> "quantize_weights_3", a |-> w]
       \/ \E b \in BoneLists : arg = [f |-> "quantize_indices_3", a |-> b]
       \/ \E v \in VertexLists(PureShapes), name \in FormatNames :
              arg = [f |-> "validate_vertices", a |-> v, fmt |-> name]
       \/ \E n \in {0, 1, 2, BigFill}, ix \in IndexLists, g \in GroupLists :
              arg = [f |-> "validate_primitives", nv |-> n, ix |-> ix, groups |-> g]
       \/ \E d \in Directions : arg = [f |-> "compress_dir_to_u16x2", a |-> d]
       \/ \E b \in BspPayloads : arg = [f |-> "write_bsp_section", a |-> b]
       \/ \E ms \in MeshLists : arg = [f |-> "collect_bsp_for_object", a |-> ms]
       \/ \E ms \in MaterialLists : arg = [f |-> "_collect_geometry", a |-> ms]
       \/ \E name \in FormatNames : \E v \in WritableLists(name) :
              arg = [f |-> "_write_vertex_section", a |-> v, fmt |-> name]
    /\ ExportIdle /\ BspIdle /\ EngineIdle

CallQuantizeWeights ==
    /\ fn = "" /\ arg.f = "quantize_weights_3"
    /\ fn' = arg.f /\ ret' = quantize_weights_3(arg.a)
    /\ UNCHANGED <<arg, exportVars, bspVars, engineVars>>

CallQuantizeIndices ==
    /\ fn = "" /\ arg.f = "quantize_indices_3"
    /\ fn' = arg.f /\ ret' = quantize_indices_3(arg.a)
    /\ UNCHANGED <<arg, exportVars, bspVars, engineVars>>

CallValidateVertices ==
    /\ fn = "" /\ arg.f = "validate_vertices"
    /\ fn' = arg.f /\ ret' = validate_vertices(arg.a, REGISTERED_FORMATS[arg.fmt])
    /\ UNCHANGED <<arg, exportVars, bspVars, engineVars>>

CallValidatePrimitives ==
    /\ fn = "" /\ arg.f = "validate_primitives"
    /\ fn' = arg.f /\ ret' = validate_primitives(arg.nv, arg.ix, arg.groups)
    /\ UNCHANGED <<arg, exportVars, bspVars, engineVars>>

\* a direction is packed and the packed pair is unpacked again
CallCompressDir ==
    /\ fn = "" /\ arg.f = "compress_dir_to_u16x2"
    /\ fn' = arg.f
    /\ LET code == compress_dir_to_u16x2(arg.a[1], arg.a[2])
       IN  ret' = [code |-> code,
                   dir |-> decompress_u16x2_to_dir(code[1], code[2])]
    /\ UNCHANGED <<arg, exportVars, bspVars, engineVars>>

CallWriteBspSection ==
    /\ fn = "" /\ arg.f = "write_bsp_section"
    /\ fn' = arg.f /\ ret' = write_bsp_section(arg.a)
    /\ UNCHANGED <<arg, exportVars, bspVars, engineVars>>

\* lines 61-79 of collect_bsp_for_object on the collected meshes
CallMergeMeshes ==
    /\ fn = "" /\ arg.f = "collect_bsp_for_object"
    /\ fn' = arg.f /\ ret' = MergeMeshes(arg.a, 1, <<>>, <<>>, 0)
    /\ UNCHANGED <<arg, exportVars, bspVars, engineVars>>

CallWriteVertexSection ==
    /\ fn = "" /\ arg.f = "_write_vertex_section"
    /\ fn' = arg.f
    /\ ret' = VertexSectionWrites(arg.a, REGISTERED_FORMATS[arg.fmt])
    /\ UNCHANGED <<arg, exportVars, bspVars, engineVars>>

CallCollectGeometry ==
    /\ fn = "" /\ arg.f = "_collect_geometry"
    /\ fn' = arg.f
    /\ ret' = _collect_geometry(arg.a, 1, <<>>)
    /\ UNCHANGED <<arg, exportVars, bspVars, engineVars>>

NextPure ==
    \/ CallMergeMeshes
    \/ CallCollectGeometry
    \/ CallWriteVertexSection
    \/ CallQuantizeWeights
    \/ CallQuantizeIndices
    \/ CallValidateVertices
    \/ CallValidatePrimitives
    \/ CallCompressDir
    \/ CallWriteBspSection

SpecPure == InitPure /\ [][NextPure]_vars

(***************************************************************************)
(* SpecBSP: one call of CollisionProcessor._build_bsp.                     *)
(* build_node reads the module bindings LeafTriangleLimit and MaxDepth at  *)
(* every call.  With the shipped bindings a list of more than 128          *)
(* triangles reaches depth 16 only for inputs of about a million           *)
(* triangles, so the build is also run under small bindings, where a few   *)
(* triangles reach the depth limit.                                        *)
(***************************************************************************)
MaxTris == 4        \* triangles of a small input

Bindings == {<<LeafTriangleLimit, MaxDepth>>, <<1, 2>>, <<2, 1>>}

\* small inputs: four vertices, triangles drawn from five index triples
SmallVertices == <<<<0, 0, 0>>, <<6, 0, 0>>, <<0, 6, 0>>, <<0, 0, 6>>>>
TriChoices == {<<0, 1, 2>>, <<1, 2, 3>>, <<0, 2, 3>>, <<0, 1, 3>>, <<0, 0, 1>>}
SmallTriangles == SeqsUpTo(TriChoices, MaxTris) \ {<<>>}

\* large inputs: a strip of n triangles <<k, k+1, k+2>> over n + 2 vertices
\* whose coordinates follow one pattern per axis
Patterns == {"const", "ramp", "mod2", "skew", "block"}
Coord(pat, k) ==
    6 * (IF pat = "const" THEN 0
         ELSE IF pat = "ramp" THEN k
         ELSE IF pat = "mod2" THEN k % 2
         ELSE IF pat = "skew" THEN (IF k < 3 THEN 1 ELSE 0)
         ELSE k \div 100)
StripVertices(n, px, py, pz) ==
    [k \in 1..(n + 2) |-> <<Coord(px, k - 1), Coord(py, k - 1), Coord(pz, k - 1)>>]
StripTriangles(n) == [k \in 1..n |-> <<k - 1, k, k + 1>>]
StripSizes == {129, 300}

BspLocalsUnset ==
    /\ centroids = <<>> /\ nodes = <<>> /\ output_triangles = <<>>
    /\ stack = <<>> /\ retval = -1 /\ node_depth = <<>>

InitBSPSmall ==
    /\ bpc = "start"
    /\ \E b \in Bindings : leafLimit = b[1] /\ maxDepth = b[2]
    /\ bvertices = SmallVertices
    /\ triangles \in SmallTriangles
    /\ BspLocalsUnset
    /\ ExportIdle /\ PureIdle /\ EngineIdle

InitBSPStrip ==
    /\ bpc = "start"
    /\ leafLimit = LeafTriangleLimit /\ maxDepth = MaxDepth
    /\ \E n \in StripSizes, px \in Patterns, py \in Patterns, pz \in Patterns :
           /\ bvertices = StripVertices(n, px, py, pz)
           /\ triangles = StripTriangles(n)
    /\ BspLocalsUnset
    /\ ExportIdle /\ PureIdle /\ EngineIdle

InitBSP == InitBSPSmall \/ InitBSPStrip

NextBSP ==
    \/ BuildStart
    \/ BuildLeaf
    \/ BuildSplit
    \/ BuildRight
    \/ BuildBackfill
    \/ BuildReturn

SpecBSP == InitBSP /\ [][NextBSP]_vars

\* the build is one synchronous call: a step that can be taken is taken.
\* Behaviours are checked on the small inputs.
SpecBSPFair == InitBSPSmall /\ [][NextBSP]_vars /\ WF_vars(NextBSP)

(***************************************************************************)
(* export_project (bigworld_blender_exporter/core/export_engine.py): one   *)
(* thread per mesh object, each running ModelExporter.export.  Names are   *)
(* sequences of characters; every file is created in the one target_dir,   *)
(* so a path is modelled by its file name.                                 *)
(***************************************************************************)
MaxObjects == 2
MaxSlots == 1

ObjNames == {<<"a">>, <<"a", "_", "b">>, <<"b">>}
MatNames == {<<"c">>, <<"b", "_", "c">>}

\* model_exporter.py line 30: f"{self.obj.name}.model"
ModelFileName(obj) == obj.name \o <<".model">>

\* material_exporter.py line 17: f"{obj.name}_{mat_name}.mfm"
MfmFileName(obj, mat_name) == obj.name \o <<"_">> \o mat_name \o <<".mfm">>

\* mesh objects of a scene: Blender keeps object names unique
Scenes ==
    {objs \in SeqsUpTo([name : ObjNames, materials : SeqsUpTo(MatNames, MaxSlots)],
                       MaxObjects) :
        \A i, j \in 1..Len(objs) : i # j => objs[i].name # objs[j].name}

InitEngine ==
    /\ ExportIdle /\ PureIdle /\ BspIdle
    /\ epc = "start"
    /\ mesh_objs \in Scenes
    /\ threads = <<>> /\ joined = 0 /\ target_files = {}

\* lines 13-27: makedirs, the mesh objects are selected, threads = []
BeginExportProject ==
    /\ epc = "start"
    /\ epc' = "spawn"
    /\ UNCHANGED <<mesh_objs, threads, joined, target_files>>
    /\ UNCHANGED <<exportVars, pureVars, bspVars>>

\* lines 28-31: t = Thread(target=export_one, args=(obj,)); t.start()
StartThread ==
    /\ epc = "spawn" /\ Len(threads) < Len(mesh_objs)
    /\ threads' = Append(threads, [pc |-> "export", k |-> 1, file |-> <<>>])
    /\ UNCHANGED <<epc, mesh_objs, joined, target_files>>
    /\ UNCHANGED <<exportVars, pureVars, bspVars>>

\* the for loop of line 28 is exhausted
AllStarted ==
    /\ epc = "spawn" /\ Len(threads) = Len(mesh_objs)
    /\ epc' = "join"
    /\ UNCHANGED <<mesh_objs, threads, joined, target_files>>
    /\ UNCHANGED <<exportVars, pureVars, bspVars>>

\* lines 32-33: t.join() returns once that thread has ended
JoinThread ==
    /\ epc = "join" /\ joined < Len(threads)
    /\ threads[joined + 1].pc = "done"
    /\ joined' = joined + 1
    /\ UNCHANGED <<epc, mesh_objs, threads, target_files>>
    /\ UNCHANGED <<exportVars, pureVars, bspVars>>

\* line 34
ReturnExportProject ==
    /\ epc = "join" /\ joined = Len(threads)
    /\ epc' = "done"
    /\ UNCHANGED <<mesh_objs, threads, joined, target_files>>
    /\ UNCHANGED <<exportVars, pureVars, bspVars>>

\* export_one lines 22-23 and export lines 29-33: the exporter is built,
\* the model path, mesh and armature data are computed; nothing is written
ThreadBeginExport(t) ==
    /\ threads[t].pc = "export"
    /\ threads' = [threads EXCEPT ![t].pc = "materials"]
    /\ UNCHANGED <<epc, mesh_objs, joined, target_files>>
    /\ UNCHANGED <<exportVars, pureVars, bspVars>>

\* export_materials lines 15-18 and write_mfm_file line 36: open(path, "w")
OpenMfm(t) ==
    /\ threads[t].pc = "materials"
    /\ threads[t].k <= Len(mesh_objs[t].materials)
    /\ LET path == MfmFileName(mesh_objs[t], mesh_objs[t].materials[threads[t].k])
       IN  /\ threads' = [threads EXCEPT ![t].pc = "mfm_open", ![t].file = path]
           /\ target_files' = target_files \cup {path}
    /\ UNCHANGED <<epc, mesh_objs, joined>>
    /\ UNCHANGED <<exportVars, pureVars, bspVars>>

\* write_mfm_file lines 37-42: the text is written and the with block closes
CloseMfm(t) ==
    /\ threads[t].pc = "mfm_open"
    /\ threads' = [threads EXCEPT ![t].pc = "materials", ![t].file = <<>>,
                                  ![t].k = @ + 1]
    /\ UNCHANGED <<epc, mesh_objs, joined, target_files>>
    /\ UNCHANGED <<exportVars, pureVars, bspVars>>

\* export_materials line 32, then export line 35: export_animations is
\* imported from animation_exporter.py, which does not define it; the call
\* either returns or raises (the exception ends the thread in export_one)
ExportAnimations(t) ==
    /\ threads[t].pc = "materials"
    /\ threads[t].k > Len(mesh_objs[t].materials)
    /\ \E next \in {"model", "done"} :
           threads' = [threads EXCEPT ![t].pc = next]
    /\ UNCHANGED <<epc, mesh_objs, joined, target_files>>
    /\ UNCHANGED <<exportVars, pureVars, bspVars>>

\* _write_model_file line 91: BinaryWriter(path) opens the file with "wb"
OpenModel(t) ==
    /\ threads[t].pc = "model"
    /\ LET path == ModelFileName(mesh_objs[t])
       IN  /\ threads' = [threads EXCEPT ![t].pc = "model_open", ![t].file = path]
           /\ target_files' = target_files \cup {path}
    /\ UNCHANGED <<epc, mesh_objs, joined>>
    /\ UNCHANGED <<exportVars, pureVars, bspVars>>

\* _write_model_file lines 92-105: the with block ends, normally or by an
\* exception, and BinaryWriter.__exit__ closes the file; the thread ends
CloseModel(t) ==
    /\ threads[t].pc = "model_open"
    /\ threads' = [threads EXCEPT ![t].pc = "done", ![t].file = <<>>]
    /\ UNCHANGED <<epc, mesh_objs, joined, target_files>>
    /\ UNCHANGED <<exportVars, pureVars, bspVars>>

NextEngine ==
    \/ BeginExportProject
    \/ StartThread
    \/ AllStarted
    \/ JoinThread
    \/ ReturnExportProject
    \/ \E t \in 1..Len(threads) : ThreadBeginExport(t)
    \/ \E t \in 1..Len(threads) : OpenMfm(t)
    \/ \E t \in 1..Len(threads) : CloseMfm(t)
    \/ \E t \in 1..Len(threads) : ExportAnimations(t)
    \/ \E t \in 1..Len(threads) : OpenModel(t)
    \/ \E t \in 1..Len(threads) : CloseModel(t)

SpecEngine == InitEngine /\ [][NextEngine]_vars

(***************************************************************************)
(* Properties of export_primitives_file (SpecExport)                       *)
(***************************************************************************)
Returned == pc \in {"done", "failed"}
PastValidation == pc \in {"validated", "vertex_section", "index_section", "done"}

\* C1: a call of export_primitives_file that fails (empty input, missing
\* attribute, index >= vertex count, group range outside the buffers, 16-bit
\* index range overflow) has never opened the destination, and the
\* destination holds no field written by the call.
C1_FailedExportNeverOpens ==
    pc = "failed" => (opens = 0 /\ fh = "none" /\ disk \in {NoFile, OldFile})

GroupInBounds(g) ==
    /\ g[1] + g[2] * 3 <= Len(indices)
    /\ g[3] + g[4] <= NumVertices(vertices)

\* C4: the export gets past validation only if every primitive group has
\* startIndex + numPrims*3 <= len(indices) and startVertex + numVertices
\* <= len(vertices); a call with a group outside either bound fails without
\* opening the file; the group range error is raised only for a group that
\* is outside a bound, so a group meeting a bound with equality is accepted.
C4_GroupRangesWithinBuffers ==
    /\ (PastValidation \/ opens > 0) =>
           \A k \in 1..Len(primitive_groups) : GroupInBounds(primitive_groups[k])
    /\ (Returned /\ \E k \in 1..Len(primitive_groups) :
                        ~GroupInBounds(primitive_groups[k]))
           => (pc = "failed" /\ opens = 0)
    /\ err = "GroupRangeExceeded" =>
           \E k \in 1..Len(primitive_groups) : ~GroupInBounds(primitive_groups[k])

\* C4 witness: a finished export with a group that meets both bounds with
\* equality
C4_Witness ==
    /\ pc = "done"
    /\ \E k \in 1..Len(primitive_groups) :
           /\ primitive_groups[k][1] + primitive_groups[k][2] * 3 = Len(indices)
           /\ primitive_groups[k][3] + primitive_groups[k][4] = NumVertices(vertices)

\* C5: a call whose index buffer holds a value >= the vertex count fails
\* without opening the file; the index error is raised only for such a
\* buffer; every index field of a completely written file is below the
\* vertex count.
C5_IndicesBelowVertexCount ==
    /\ (PastValidation \/ opens > 0) =>
           \A i \in 1..Len(indices) : indices[i] < NumVertices(vertices)
    /\ (Returned /\ \E i \in 1..Len(indices) : indices[i] >= NumVertices(vertices))
           => (pc = "failed" /\ opens = 0)
    /\ err = "IndexOutOfRange" =>
           \E i \in 1..Len(indices) : indices[i] >= NumVertices(vertices)
    /\ pc = "done" =>
           \A i \in 1..Len(indices) :
               /\ disk.data[6 + i].t \in {"u16", "u32"}
               /\ disk.data[6 + i].n < disk.data[2].n

\* C5 witness: a finished export whose largest index is the last vertex,
\* next to a rejected call (checked by the formula) one above it
C5_Witness ==
    /\ pc = "done"
    /\ \E i \in 1..Len(indices) : indices[i] = NumVertices(vertices) - 1
    /\ \E i \in 1..Len(indices) : indices[i] = 1

C2_WeightsSumTo255 ==
    fn = "quantize_weights_3" =>
        /\ ret[1] + ret[2] + ret[3] = 255
        /\ ret[3] = 255 - ret[1] - ret[2]

\* a vertex lacks an attribute of the format, "uv" standing in for "uv0"
Lacks(vtx, fmt) ==
    \E i \in 1..Len(fmt.attributes) :
        LET a == fmt.attributes[i].name
        IN  IF a = "uv0" THEN "uv0" \notin vtx /\ "uv" \notin vtx ELSE a \notin vtx

\* 0-based indices of the offending vertices of a vertex list
Offending(v, fmt) ==
    {i - 1 : i \in {j \in 1..Len(v.head) : Lacks(v.head[j], fmt)}}
    \cup (IF v.fill > 0 /\ Lacks(FillKeys, fmt) THEN {Len(v.head)} ELSE {})

\* C6 as stated: validate_vertices fails for exactly the vertex lists in
\* which some vertex lacks a required attribute, and names the smallest
\* offending index.
C6_FailsExactlyOnMissingAttribute ==
    fn = "validate_vertices" =>
        LET off == Offending(arg.a, REGISTERED_FORMATS[arg.fmt])
        IN  /\ ret.ok = FALSE <=> off # {}
            /\ off # {} => ret.at = MinOfSet(off)

\* C6 amended: validate_vertices fails for exactly the vertex lists that are
\* empty or in which some vertex lacks a required attribute; in the second
\* case it names the smallest offending index and the attributes that vertex
\* lacks, and only those.
C6_FailsOnEmptyOrMissingAttribute ==
    fn = "validate_vertices" =>
        LET fmt == REGISTERED_FORMATS[arg.fmt]
            off == Offending(arg.a, fmt)
            vtx == IF ret.at < Len(arg.a.head) THEN arg.a.head[ret.at + 1]
                   ELSE FillKeys
        IN  /\ ret.ok = FALSE <=> (NumVertices(arg.a) = 0 \/ off # {})
            /\ off # {} =>
                  /\ ret.at = MinOfSet(off)
                  /\ ret.missing # <<>>
                  /\ \A a \in Range(ret.missing) :
                        a \notin vtx /\ ~(a = "uv0" /\ "uv" \in vtx)
                  /\ \A i \in 1..Len(fmt.attributes) :
                        (fmt.attributes[i].name \notin vtx
                         /\ ~(fmt.attributes[i].name = "uv0" /\ "uv" \in vtx))
                        => fmt.attributes[i].name \in Range(ret.missing)

\* C6 witness: two vertices lack "normal", an earlier one uses the alias;
\* the first of the two is reported
C6_Witness ==
    /\ fn = "validate_vertices"
    /\ arg.fmt = "xyznuvtb"
    /\ Len(arg.a.head) = 2
    /\ arg.a.head[1] = NoNormalKeys /\ arg.a.head[2] = NoUvNoNormalKeys
    /\ ret = [ok |-> FALSE, at |-> 0, missing |-> <<"normal">>]

\* C7: for a list of at most 3 bone indices quantize_indices_3 returns, in
\* slot k, input[k] mod 256 when the slot is supplied and 0 when it is not;
\* every component lies in 0..255.
C7_IndicesMod256 ==
    (fn = "quantize_indices_3" /\ Len(arg.a) <= 3) =>
        \A k \in 1..3 :
            /\ ret[k] = (IF k <= Len(arg.a) THEN arg.a[k] % 256 ELSE 0)
            /\ ret[k] \in 0..255

\* C7 witness: a negative index, one above 255 and a missing slot
C7_Witness ==
    /\ fn = "quantize_indices_3"
    /\ arg.a = <<-1, 300>>
    /\ ret = <<255, 44, 0>>

(***************************************************************************)
(* Properties of _build_bsp (SpecBSP, SpecBSPFair)                         *)
(***************************************************************************)
BagOfSeq(q) == [x \in Range(q) |-> Cardinality({i \in 1..Len(q) : q[i] = x})]

IsLeafNode(nd) == nd.childA = -1 /\ nd.childB = -1

\* the triangle ranges of the leaves, concatenated in leaf-creation order
RECURSIVE LeafConcat(_)
LeafConcat(k) ==
    IF k = 0 THEN <<>>
    ELSE LeafConcat(k - 1) \o
         (IF IsLeafNode(nodes[k])
          THEN SubSeq(output_triangles, nodes[k].triStart + 1,
                      nodes[k].triStart + nodes[k].triCount)
          ELSE <<>>)

\* C3: once the build has returned, the leaf ranges concatenated in
\* leaf-creation order hold every input triangle exactly as often as the
\* input does, and so does the output array.
C3_LeavesArePermutation ==
    bpc = "done" =>
        /\ BagOfSeq(LeafConcat(Len(nodes))) = BagOfSeq(triangles)
        /\ BagOfSeq(output_triangles) = BagOfSeq(triangles)
        /\ Len(output_triangles) = Len(triangles)

\* C3 witness: a finished build with several leaves that reordered the
\* triangles, on an input holding the same triangle twice
C3_Witness ==
    /\ bpc = "done"
    /\ Cardinality({k \in 1..Len(nodes) : IsLeafNode(nodes[k])}) >= 3
    /\ output_triangles # triangles
    /\ \E i, j \in 1..Len(triangles) : i # j /\ triangles[i] = triangles[j]

\* C8: no call of build_node is made at a depth above the depth limit, and
\* the build returns.
C8_DepthBoundedAndTerminates ==
    /\ [](\A k \in 1..Len(stack) : stack[k].depth <= maxDepth)
    /\ <>(bpc = "done")

\* C8 witness: a call at the depth limit on more triangles than a leaf
\* should hold, which the depth alone turns into a leaf
C8_Witness ==
    /\ bpc = "run" /\ stack # <<>>
    /\ Top.phase = "enter"
    /\ Top.depth = maxDepth
    /\ Len(Top.idx_list) > leafLimit

\* C10: with the shipped limits, the tree built for 300 triangles has no
\* leaf of more than 128 triangles and no node deeper than 16.
C10_ThreeHundredTriangles ==
    (bpc = "done" /\ Len(triangles) = 300
     /\ leafLimit = LeafTriangleLimit /\ maxDepth = MaxDepth) =>
        \A k \in 1..Len(nodes) :
            /\ IsLeafNode(nodes[k]) => nodes[k].triCount <= 128
            /\ node_depth[k] <= 16

\* C10 witness: 300 triangles whose centroids all share the x coordinate,
\* built into more than two leaves
C10_Witness ==
    /\ bpc = "done" /\ Len(triangles) = 300
    /\ leafLimit = LeafTriangleLimit /\ maxDepth = MaxDepth
    /\ \A i \in 1..Len(centroids) : centroids[i][1] = centroids[1][1]
    /\ Cardinality({k \in 1..Len(nodes) : IsLeafNode(nodes[k])}) >= 3

\* C11: in the node array the build returns, every node is either a leaf
\* (childA = childB = -1) or an internal node whose two children are indices
\* into the array and whose triCount is 0; no node has exactly one child -1.
C11_ReturnedNodesWellFormed ==
    bpc = "done" =>
        \A k \in 1..Len(nodes) :
            \/ IsLeafNode(nodes[k])
            \/ /\ nodes[k].childA \in 0..(Len(nodes) - 1)
               /\ nodes[k].childB \in 0..(Len(nodes) - 1)
               /\ nodes[k].triCount = 0

\* C11 witness: a returned array with an internal node whose children are
\* themselves an internal node and a leaf
C11_Witness ==
    /\ bpc = "done"
    /\ \E k \in 1..Len(nodes) :
           /\ ~IsLeafNode(nodes[k])
           /\ nodes[k].childA >= 0 /\ nodes[k].childB >= 0
           /\ ~IsLeafNode(nodes[nodes[k].childA + 1])
           /\ IsLeafNode(nodes[nodes[k].childB + 1])

\* the frame at position k is waiting for its left child, whose call is the
\* frame right above it
LeftChildRunning(k) ==
    /\ k < Len(stack)
    /\ stack[k].phase = "left"

\* C20: at every internal node the two child lists are non-empty, share no
\* triangle, together hold exactly the parent's triangles, and each is
\* shorter than the parent's list -- also when all centroids are equal.
C20_SplitIsProperPartition ==
    \A k \in 1..Len(stack) :
        LeftChildRunning(k) =>
            LET parent == stack[k].idx_list
                left == stack[k + 1].idx_list
                right == stack[k].right_list
            IN  /\ left # <<>> /\ right # <<>>
                /\ Range(left) \cap Range(right) = {}
                /\ Range(left) \cup Range(right) = Range(parent)
                /\ Len(left) + Len(right) = Len(parent)
                /\ Len(left) < Len(parent) /\ Len(right) < Len(parent)

\* C20 witness: a split of triangles whose centroids are all equal, through
\* the fallback, into two halves
C20_Witness ==
    /\ bpc = "run" /\ stack # <<>>
    /\ \E k \in 1..Len(stack) :
           /\ LeftChildRunning(k)
           /\ Len(stack[k].idx_list) >= 2
           /\ \A i, j \in Range(stack[k].idx_list) :
                  centroids[i + 1] = centroids[j + 1]
           /\ stack[k].right_list # <<>>

(***************************************************************************)
(* Further properties of export_primitives_file (SpecExport)               *)
(***************************************************************************)
Registered == vertex_format_name \in DOMAIN REGISTERED_FORMATS

\* the group table has non-negative starts and positive counts
GroupStatsPositive ==
    \A k \in 1..Len(primitive_groups) :
        LET g == primitive_groups[k]
        IN  g[1] >= 0 /\ g[2] > 0 /\ g[3] >= 0 /\ g[4] > 0

\* the documented validity conditions of an export call: known format,
\* non-empty buffers, every vertex supplies the attributes of the format
\* ("uv" standing in for "uv0"), every index is a vertex, every group range
\* fits the buffers, the largest index fits the requested index width
DocumentedValid ==
    /\ Registered
    /\ NumVertices(vertices) > 0 /\ indices # <<>> /\ primitive_groups # <<>>
    /\ Offending(vertices, REGISTERED_FORMATS[vertex_format_name]) = {}
    /\ \A i \in 1..Len(indices) :
           0 <= indices[i] /\ indices[i] < NumVertices(vertices)
    /\ GroupStatsPositive
    /\ \A k \in 1..Len(primitive_groups) : GroupInBounds(primitive_groups[k])
    /\ use_32bit_index \/ max(indices) <= 65535

\* C12: a call whose input meets every documented validity condition
\* succeeds, and the vertex count field, the index count field and the
\* group count field of the file are the lengths of the three inputs.
C12_ValidInputExportsWithCounts ==
    (Returned /\ DocumentedValid) =>
        /\ pc = "done"
        /\ disk.data[2] = U32(NumVertices(vertices))
        /\ disk.data[5] = U32(Len(indices))
        /\ disk.data[6] = U32(Len(primitive_groups))

\* the error the documented order of checks reports first
DocumentedFirstError ==
    IF NumVertices(vertices) = 0 \/ indices = <<>> \/ primitive_groups = <<>>
    THEN "EmptyInput"
    ELSE IF Offending(vertices, REGISTERED_FORMATS[vertex_format_name]) # {}
    THEN "MissingAttribute"
    ELSE IF \E i \in 1..Len(indices) : indices[i] >= NumVertices(vertices)
    THEN "IndexOutOfRange"
    ELSE IF \E k \in 1..Len(primitive_groups) : ~GroupInBounds(primitive_groups[k])
    THEN "GroupRangeExceeded"
    ELSE IF ~use_32bit_index /\ max(indices) > 65535
    THEN "IndexRangeExceeded"
    ELSE "ok"

\* the input has no defect outside the five documented checks: no vertex
\* uses the alias, no index is negative, the group counts are positive
OnlyDocumentedDefects ==
    /\ Registered
    /\ \A j \in 1..Len(vertices.head) : "uv" \notin vertices.head[j]
    /\ \A i \in 1..Len(indices) : indices[i] >= 0
    /\ GroupStatsPositive

\* C14: when an input violates several conditions the call reports the
\* violation that comes first in the documented order (empty buffer,
\* vertex attributes, index range, group range, 16-bit range); an empty
\* index or group list is reported as EmptyInput even if a vertex lacks an
\* attribute.
C14_FirstDocumentedErrorReported ==
    (Returned /\ OnlyDocumentedDefects) =>
        IF DocumentedFirstError = "ok" THEN pc = "done"
        ELSE pc = "failed" /\ err = DocumentedFirstError

\* C15: the vertex check of the export accepts exactly the vertex lists
\* that validate_vertices accepts, so a vertex that carries its UV under the
\* alias "uv" is accepted by the export.
C15_ExportAcceptsWhatValidateVerticesAccepts ==
    (pc # "call" /\ Registered) =>
        ((NumVertices(vertices) = 0 \/ err = "MissingAttribute")
            <=> ~validate_vertices(vertices,
                                   REGISTERED_FORMATS[vertex_format_name]).ok)

\* C19: a call opens the destination at most once, a handle is open only
\* between that open and the end of the with block, and no call returns,
\* normally or by an error raised while a section is written, with the
\* handle still open.
C19_OneHandleClosedOnReturn ==
    /\ opens <= 1
    /\ fh = "open" => (opens = 1 /\ pc \in {"vertex_section", "index_section"})
    /\ Returned => fh \in {"none", "closed"}
    /\ (Returned /\ opens = 1) => fh = "closed"

\* C19 witness: a call that failed while the index section was written,
\* after the handle was opened, and returned with the handle closed
C19_Witness ==
    /\ pc = "failed" /\ err = "IndexRangeExceeded"
    /\ opens = 1 /\ fh = "closed"

(***************************************************************************)
(* Properties of the direction packing and of write_bsp_section (SpecPure) *)
(***************************************************************************)
\* the largest integer n with n / (2 * AngleGrid * U16_MAX) <= 1 / 65536
AngleTolerance == (2 * AngleGrid * U16_MAX) \div 65536

Abs(x) == IF x < 0 THEN -x ELSE x

\* C13: for a unit vector, unpacking the packed direction gives an azimuth
\* within 2 pi / 65536 and an elevation within pi / 65536 of the vector's,
\* and both packed components lie in 0..65535.
\* (azimuths p pi / AngleGrid and a pi / U16_MAX differ by at most
\* 2 pi / 65536 iff |a AngleGrid - p U16_MAX| <= 2 AngleGrid U16_MAX / 65536;
\* elevations q pi / (2 AngleGrid) and e pi / (2 U16_MAX) differ by at most
\* pi / 65536 under the same inequality.)
C13_DirectionRoundTripWithinOneStep ==
    fn = "compress_dir_to_u16x2" =>
        /\ ret.code[1] \in 0..65535 /\ ret.code[2] \in 0..65535
        /\ Abs(ret.dir[1] * AngleGrid - arg.a[1] * U16_MAX) <= AngleTolerance
        /\ Abs(ret.dir[2] * AngleGrid - arg.a[2] * U16_MAX) <= AngleTolerance

\* C13 witness: a direction neither of whose angles is representable, so
\* that the unpacked angles both differ from the packed ones
C13_Witness ==
    /\ fn = "compress_dir_to_u16x2"
    /\ ret.dir[1] * AngleGrid # arg.a[1] * U16_MAX
    /\ ret.dir[2] * AngleGrid # arg.a[2] * U16_MAX
    /\ ret.code[1] > 32768 /\ ret.code[2] < 32767

IsInternalNode(nd) == ~IsLeafNode(nd)

\* a node that breaks the leaf/internal structure within count nodes
StructurallyBad(nd, count) ==
    \/ (nd.childA = -1) # (nd.childB = -1)
    \/ /\ IsInternalNode(nd)
       /\ ~(nd.childA \in 0..(count - 1) /\ nd.childB \in 0..(count - 1))
    \/ IsInternalNode(nd) /\ nd.triCount # 0

\* C16: write_bsp_section rejects, before it writes any field, every payload
\* with a node that has exactly one child -1, an internal node with a child
\* outside the node list, or an internal node with a triangle count.
C16_StructurallyBadNodeRejected ==
    (fn = "write_bsp_section" /\ arg.a.given
     /\ \E k \in 1..Len(arg.a.nodes) :
            StructurallyBad(arg.a.nodes[k], Len(arg.a.nodes)))
        => (ret.err \notin {"", "struct.error"} /\ ret.out = <<>>)

\* C17: a payload with a leaf whose triStart + triCount exceeds the number
\* of triangles, or whose triStart is negative, is rejected and no field of
\* a BSP section is written.
C17_LeafRangeOutsideTrianglesRejected ==
    (fn = "write_bsp_section" /\ arg.a.given
     /\ \E k \in 1..Len(arg.a.nodes) :
            /\ IsLeafNode(arg.a.nodes[k])
            /\ \/ arg.a.nodes[k].triStart + arg.a.nodes[k].triCount
                      > Len(arg.a.triangles)
               \/ arg.a.nodes[k].triStart < 0)
        => (ret.err # "" /\ ret.out = <<>>)

\* C18: a BSP section is written if and only if collision data is supplied;
\* with none supplied not even an empty BSP header is appended.
C18_BspSectionIffDataSupplied ==
    fn = "write_bsp_section" =>
        /\ ~arg.a.given => ret.out = <<>>
        /\ (arg.a.given /\ ret.err = "") =>
               (ret.out # <<>> /\ ret.out[1] = Id64(BSP_IDENTIFIER))

(***************************************************************************)
(* Further properties of _build_bsp (SpecBSP)                              *)
(***************************************************************************)
\* 1-based positions of the leaves of the node array
LeafIdx == {k \in 1..Len(nodes) : IsLeafNode(nodes[k])}

\* a call of build_node that has reserved an internal node
InternalFrame(f) == f.phase \in {"left", "right"}

\* C21: a node is made a leaf exactly when its depth is >= MaxDepth or its
\* list holds at most LeafTriangleLimit triangles: every internal node has
\* depth < MaxDepth and more than LeafTriangleLimit triangles, and a leaf
\* with more than LeafTriangleLimit triangles lies at depth MaxDepth.
C21_LeafExactlyOnDepthOrSize ==
    /\ \A k \in 1..Len(stack) :
           InternalFrame(stack[k]) =>
               /\ stack[k].depth < maxDepth
               /\ Len(stack[k].idx_list) > leafLimit
               /\ node_depth[stack[k].node_index + 1] = stack[k].depth
    /\ bpc = "done" =>
           \A k \in 1..Len(nodes) :
               IF IsLeafNode(nodes[k])
               THEN /\ node_depth[k] >= maxDepth \/ nodes[k].triCount <= leafLimit
                    /\ nodes[k].triCount > leafLimit => node_depth[k] = maxDepth
               ELSE node_depth[k] < maxDepth

\* C21 witness: a returned tree with an internal node and, at the depth
\* limit, a leaf of more than leafLimit triangles next to a smaller leaf
\* above the limit depth
C21_Witness ==
    /\ bpc = "done"
    /\ \E k \in 1..Len(nodes) : ~IsLeafNode(nodes[k])
    /\ \E k \in LeafIdx :
           nodes[k].triCount > leafLimit /\ node_depth[k] = maxDepth
    /\ \E k \in LeafIdx :
           nodes[k].triCount <= leafLimit /\ node_depth[k] < maxDepth

\* position of a triangle in the input (inputs without repeated triangles)
InputPos(tr) == CHOOSE i \in 1..Len(triangles) : triangles[i] = tr

\* C22: the leaf ranges tile the output array: the first leaf starts at 0,
\* every later leaf starts where the leaf created before it ends, the last
\* leaf ends at the number of output triangles; inside a leaf the triangles
\* keep the order they have in the input.
C22_LeafRangesTileOutput ==
    bpc = "done" =>
        /\ \A k \in LeafIdx :
               LET before == {j \in LeafIdx : j < k}
               IN  IF before = {} THEN nodes[k].triStart = 0
                   ELSE nodes[k].triStart =
                            nodes[MaxOfSet(before)].triStart
                            + nodes[MaxOfSet(before)].triCount
        /\ LeafIdx # {}
        /\ nodes[MaxOfSet(LeafIdx)].triStart + nodes[MaxOfSet(LeafIdx)].triCount
               = Len(output_triangles)
        /\ Cardinality(Range(triangles)) = Len(triangles) =>
               \A a \in 1..(Len(output_triangles) - 1) :
                   \/ \E k \in LeafIdx : nodes[k].triStart = a
                   \/ InputPos(output_triangles[a]) < InputPos(output_triangles[a + 1])

\* C22 witness: three leaves over distinct triangles, the second and third
\* starting past 0
C22_Witness ==
    /\ bpc = "done"
    /\ Cardinality(LeafIdx) >= 3
    /\ Cardinality(Range(triangles)) = Len(triangles)
    /\ \E k \in LeafIdx : nodes[k].triStart > 0 /\ nodes[k].triCount >= 2

\* the k-th smallest of a sequence of numbers
KthSmallest(vals, k) ==
    CHOOSE v \in Range(vals) :
        /\ Cardinality({i \in 1..Len(vals) : vals[i] < v}) < k
        /\ k <= Cardinality({i \in 1..Len(vals) : vals[i] <= v})

\* twice the median: the middle value counted twice for an odd count, the
\* sum of the two middle values for an even count
TwiceMedian(vals) ==
    IF Len(vals) % 2 = 1 THEN 2 * KthSmallest(vals, Len(vals) \div 2 + 1)
    ELSE KthSmallest(vals, Len(vals) \div 2)
         + KthSmallest(vals, Len(vals) \div 2 + 1)

\* a plane has the unit normal of axis depth mod 3 and d = -median(vals)
PlaneOfDepth(plane, depth, vals) ==
    /\ \A c \in 1..3 : plane[c] = (IF c = (depth % 3) + 1 THEN 1 ELSE 0)
    /\ 2 * plane[4] = -TwiceMedian(vals)

\* centroid coordinates, on the axis of depth, of a list of triangles
CoordsOnAxis(tris, depth) ==
    [i \in 1..Len(tris) |-> _triangle_centroid(bvertices, tris[i])[(depth % 3) + 1]]

C29_BuildResultPassesPayloadValidation ==
    bpc = "done" =>
        /\ _validate_bsp_payload([given |-> TRUE, nodes |-> nodes,
                                  triangles |-> output_triangles]).err = "ok"
        /\ \A k \in LeafIdx :
               /\ 0 <= nodes[k].triStart
               /\ 0 <= nodes[k].triCount
               /\ nodes[k].triStart + nodes[k].triCount <= Len(output_triangles)

\* C29 witness: a validated result with two internal nodes
C29_Witness ==
    /\ bpc = "done"
    /\ Cardinality({k \in 1..Len(nodes) : ~IsLeafNode(nodes[k])}) >= 2
    /\ _validate_bsp_payload([given |-> TRUE, nodes |-> nodes,
                              triangles |-> output_triangles]).nodes = nodes

\* C30: the returned node array is a full binary tree in pre-order: the
\* root is node 0, the childA of an internal node is its own index + 1 and
\* its childB is greater, every node but the root is the child of exactly
\* one internal node, and there are 2 * (number of leaves) - 1 nodes.
C30_PreOrderFullBinaryTree ==
    bpc = "done" =>
        /\ nodes # <<>>
        /\ \A k \in 1..Len(nodes) :
               IsLeafNode(nodes[k]) \/
                   (nodes[k].childA = k /\ nodes[k].childB > nodes[k].childA)
        /\ \A j \in 1..(Len(nodes) - 1) :
               Cardinality({<<k, c>> \in (1..Len(nodes)) \X {"A", "B"} :
                   /\ ~IsLeafNode(nodes[k])
                   /\ (IF c = "A" THEN nodes[k].childA ELSE nodes[k].childB) = j})
                   = 1
        /\ \A k \in 1..Len(nodes) :
               IsLeafNode(nodes[k]) \/ (nodes[k].childA # 0 /\ nodes[k].childB # 0)
        /\ Len(nodes) = 2 * Cardinality(LeafIdx) - 1

\* C30 witness: a returned tree of at least five nodes whose root has an
\* internal left child, so that its childB lies past a whole subtree
C30_Witness ==
    /\ bpc = "done"
    /\ Len(nodes) >= 5
    /\ ~IsLeafNode(nodes[1]) /\ ~IsLeafNode(nodes[2])
    /\ nodes[1].childB >= 4

VertsBefore(ms, k) == SumSeq([i \in 1..(k - 1) |-> Len(ms[i].verts)])
TrisBefore(ms, k) == SumSeq([i \in 1..(k - 1) |-> Len(ms[i].tris)])

\* C25: a triangle (a, b, c) of the k-th merged mesh becomes
\* (a + off, b + off, c + off), off being the number of vertices of the
\* meshes before it; every merged index is below the number of merged
\* vertices and names the position the local index named in its mesh.
C25_MergedIndicesKeepTheirVertex ==
    fn = "collect_bsp_for_object" =>
        /\ Len(ret.vertices) = VertsBefore(arg.a, Len(arg.a) + 1)
        /\ Len(ret.triangles) = TrisBefore(arg.a, Len(arg.a) + 1)
        /\ \A k \in 1..Len(arg.a) : \A j \in 1..Len(arg.a[k].tris) :
               \A c \in 1..3 :
                   LET local == arg.a[k].tris[j][c]
                       merged == ret.triangles[TrisBefore(arg.a, k) + j][c]
                   IN  /\ merged = local + VertsBefore(arg.a, k)
                       /\ merged < Len(ret.vertices)
                       /\ ret.vertices[merged + 1]
                              = <<arg.a[k].world, arg.a[k].verts[local + 1]>>

\* C25 witness: three meshes with triangles, of different vertex counts, so
\* that the third offset is the sum of two different counts
C25_Witness ==
    /\ fn = "collect_bsp_for_object"
    /\ Len(arg.a) = 3
    /\ Len(arg.a[1].verts) = 2 /\ Len(arg.a[2].verts) = 3
    /\ arg.a[3].tris = <<<<0, 1, 2>>>>
    /\ ret.triangles[Len(ret.triangles)] = <<5, 6, 7>>

(***************************************************************************)
(* Properties of the vertex section writer (SpecPure)                      *)
(***************************************************************************)
TypeBytes(t) == IF t = "f32" THEN 4 ELSE IF t = "u16" THEN 2 ELSE 1

\* bytes written for one attribute, for one vertex
WritesBytes(ws) == SumSeq([i \in 1..Len(ws) |-> TypeBytes(ws[i])])
VertexBytes(vw) == SumSeq([i \in 1..Len(vw) |-> WritesBytes(vw[i].writes)])

\* every attribute of the format is written once, in format order, with
\* its declared byte size
WritesFollowFormat(vw, fmt) ==
    /\ Len(vw) = Len(fmt.attributes)
    /\ \A i \in 1..Len(vw) :
           /\ vw[i].attr = fmt.attributes[i].name
           /\ WritesBytes(vw[i].writes) = fmt.attributes[i].byte_size

\* C26: the stride of a registered format is the sum of its attribute byte
\* sizes; for every vertex the writer emits each attribute of the format,
\* in the format's order, with exactly its declared byte size; the vertex
\* section is 64 + 4 + vertexCount * stride bytes long.
C26_VertexSectionMatchesStride ==
    fn = "_write_vertex_section" =>
        LET fmt == REGISTERED_FORMATS[arg.fmt]
            count == NumVertices(arg.a)
        IN  /\ fmt.vertex_size
                  = SumSeq([i \in 1..Len(fmt.attributes) |->
                               fmt.attributes[i].byte_size])
            /\ \A i \in 1..Len(ret.head) : WritesFollowFormat(ret.head[i], fmt)
            /\ ret.fill_count > 0 => WritesFollowFormat(ret.fill, fmt)
            /\ ret.header = <<Id64(fmt.identifier), U32(count)>>
            /\ ret.header[1].n + 4
                   + SumSeq([i \in 1..Len(ret.head) |-> VertexBytes(ret.head[i])])
                   + ret.fill_count * VertexBytes(ret.fill)
                  = 64 + 4 + count * fmt.vertex_size

\* C26 witness: two skinned vertices written in the skinned format, 37
\* bytes each, the bone weights as two bytes after the three bone indices
C26_Witness ==
    /\ fn = "_write_vertex_section"
    /\ arg.fmt = "xyznuviiiwwtb"
    /\ Len(ret.head) = 2
    /\ VertexBytes(ret.head[2]) = 37
    /\ ret.head[1][4] = [attr |-> "bone_idx", writes |-> <<"u8", "u8", "u8">>]
    /\ ret.head[1][5] = [attr |-> "bone_w", writes |-> <<"u8", "u8">>]

(***************************************************************************)
(* Properties of the primitive groups (SpecPure)                           *)
(***************************************************************************)
\* positions in the index list written by the triangles of material m
IndexPositionsOf(mats, m) ==
    {p \in 0..(3 * Len(mats) - 1) : mats[(p \div 3) + 1] = m}

GroupRange(g) == g.startIndex .. (g.startIndex + 3 * g.numPrims - 1)

\* C27: one group per distinct material, the index range of each group is
\* exactly the positions written by that material's triangles, and the
\* ranges of two groups do not overlap.
C27_GroupRangeIsItsMaterialsTriangles ==
    fn = "_collect_geometry" =>
        /\ Len(ret) = Cardinality({arg.a[k] : k \in 1..Len(arg.a)})
        /\ \A i \in 1..Len(ret) :
               GroupRange(ret[i]) = IndexPositionsOf(arg.a, ret[i].mat)
        /\ \A i, j \in 1..Len(ret) :
               i # j => GroupRange(ret[i]) \cap GroupRange(ret[j]) = {}

(***************************************************************************)
(* Properties of export_project (SpecEngine)                               *)
(***************************************************************************)
\* C28: two threads of export_project never have the same output path open
\* for writing at the same time, whatever the (distinct) object names and
\* the material names are.
C28_NoTwoThreadsWriteSamePath ==
    \A t1, t2 \in 1..Len(threads) :
        (t1 # t2 /\ threads[t1].file # <<>>) =>
            threads[t1].file # threads[t2].file

====
